---- MODULE Spec2Model ----
(***************************************************************************)
(* Model of the group-message store: common/db_utils.py (DatabaseManager,  *)
(* save_message, save_group_message) and api/message_api.py (get_messages, *)
(* get_groups, get_message_by_id).                                         *)
(*                                                                         *)
(* The sqlite3 connection is modelled by its committed rows, the rows of   *)
(* the open transaction and the in_transaction flag.  The connection is    *)
(* shared by all threads (check_same_thread=False), so a commit or a       *)
(* rollback acts on whatever transaction is open, whoever opened it.       *)
(* A row is the tuple the cursor returns, in the column order of the       *)
(* CREATE TABLE statement; Col(row, k) is Python's row[k].                 *)
(***************************************************************************)
EXTENDS Integers, Sequences, FiniteSets, TLC

(***************************************************************************)
(* Threads.  Ingestion threads call save_group_message; the HTTP handlers  *)
(* are coroutines without an await, so they run one at a time on the one   *)
(* event-loop thread (uvicorn workers=1).                                  *)
(***************************************************************************)
Ingest == {"i1", "i2"}
Http == {"h1"}
Threads == Ingest \cup Http
NoThread == "nobody"

(***************************************************************************)
(* Optional values (Optional[str] = None, Optional[int] = None).           *)
(***************************************************************************)
None == <<>>
Some(v) == <<v>>

\* limit: int = Query(default=50, le=100)
MaxLimit == 100
DefaultLimit == 50

(***************************************************************************)
(* Bounds of the model.                                                    *)
(***************************************************************************)
\* rows of the small stores the query specification starts from
SmallRows == 3
\* rows of the largest store the query specification starts from
BigRows == 101
\* largest create_time the ORDER BY of the model looks for
MaxTime == BigRows + 1

(***************************************************************************)
(* message_data dictionaries handed to save_group_message.  The last one   *)
(* lacks the 'content' key.                                                *)
(***************************************************************************)
Keys == {"msg_id", "group_id", "group_name", "sender_id", "sender_name",
         "content", "msg_type", "create_time"}

MessageData(m, g, gn, s, sn, c, ty, ct) ==
    [msg_id |-> m, group_id |-> g, group_name |-> gn, sender_id |-> s,
     sender_name |-> sn, content |-> c, msg_type |-> ty, create_time |-> ct]

SaveInputs ==
    { MessageData("m1", "g1", "Team", "u1", "Alice", "hi", "text", 1),
      MessageData("m1", "g1", "Team", "u1", "Alice", "yo", "text", 2),
      MessageData("m2", "g1", "Team2", "u2", "Bob", "hey", "image", 2),
      [msg_id |-> "m2", group_id |-> "g1", group_name |-> "Team",
       sender_id |-> "u1", sender_name |-> "Alice", msg_type |-> "text",
       create_time |-> 1] }

\* identifiers asked of get_message_by_id; "m3" is never saved
LookupIds == {"m1", "m2", "m3"}

VARIABLES
    lock,       \* DatabaseManager._lock: the thread holding it, or NoThread
    instance,   \* DatabaseManager._instance: "None", or the outcome of its init_db
    created,    \* number of DatabaseManager objects created so far; _instance
                \* is the last one
    db,         \* db[t]: the object DatabaseManager() returned to t (0: none yet)
    committed,  \* rows of group_messages that are committed
    pending,    \* rows inserted by the open transaction
    inTxn,      \* conn.in_transaction
    pc,         \* pc[t]: where thread t is in its call
    op,         \* op[t]: the entry point thread t last called
    arg,        \* arg[t]: its argument
    exc,        \* exc[t]: the exception raised during the call, or "none"
    sm,         \* sm[t]: how save_message ended: "none", "return" or "raise"
    ret         \* ret[t]: the outcome of the entry point: [status, body]

vars == <<lock, instance, created, db, committed, pending, inTxn, pc, op, arg,
          exc, sm, ret>>
conn == <<committed, pending, inTxn>>

NoRet == [status |-> "none", body |-> <<>>]
Returned == [status |-> "return", body |-> <<>>]
Response(status, body) == [status |-> status, body |-> body]

(***************************************************************************)
(* The table.                                                              *)
(***************************************************************************)
Col(row, k) == row[k + 1]

\* created_at TIMESTAMP DEFAULT CURRENT_TIMESTAMP: the store's clock reading
CurrentTimestamp == "CURRENT_TIMESTAMP"

\* what the statements of the connection see: committed rows, then its own
\* uncommitted ones
View == committed \o pending

\* msg_id TEXT UNIQUE
UniqueViolated_NoConstraint(rows, m) == FALSE

UniqueViolated(rows, m) == \E i \in DOMAIN rows : Col(rows[i], 1) = m

\* INSERT INTO group_messages (msg_id, ..., create_time) VALUES (?, ..., ?);
\* id is INTEGER PRIMARY KEY AUTOINCREMENT and nothing is ever deleted
InsertRow(rows, md) ==
    << Len(rows) + 1, md.msg_id, md.group_id, md.group_name, md.sender_id,
       md.sender_name, md.content, md.msg_type, md.create_time,
       CurrentTimestamp >>

(***************************************************************************)
(* Initial state: the module has been imported, nothing has been called.   *)
(***************************************************************************)
Init ==
    /\ lock = NoThread
    /\ instance = "None"
    /\ created = 0
    /\ db = [t \in Threads |-> 0]
    /\ committed = <<>>
    /\ pending = <<>>
    /\ inTxn = FALSE
    /\ pc = [t \in Threads |-> "idle"]
    /\ op = [t \in Threads |-> "none"]
    /\ arg = [t \in Threads |-> <<>>]
    /\ exc = [t \in Threads |-> "none"]
    /\ sm = [t \in Threads |-> "none"]
    /\ ret = [t \in Threads |-> NoRet]

(***************************************************************************)
(* How each entry point ends when DatabaseManager() or its statement       *)
(* raises e.                                                               *)
(*   save_group_message: except Exception -> logged, returns               *)
(*   get_messages, get_message_by_id: except Exception -> HTTPException 500*)
(*   get_groups: logged and re-raised; the framework answers 500           *)
(***************************************************************************)
\* save_group_message without its try/except
OnException_Propagates(o) ==
    IF o = "save_group_message" THEN Response("raise", <<>>)
    ELSE Response("500", <<>>)

OnException(o) ==
    IF o = "save_group_message" THEN Returned ELSE Response("500", <<>>)

\* the statement of the entry point that follows db = DatabaseManager()
AfterNew(o) ==
    CASE o = "save_group_message" -> "save"
      [] o = "get_messages" -> "gm"
      [] o = "get_groups" -> "gg"
      [] o = "get_message_by_id" -> "gid"

(***************************************************************************)
(* DatabaseManager.__new__                                                 *)
(***************************************************************************)
\* __new__ without a lock that excludes the other callers
NewAcquire_NoLock(t) ==
    /\ pc[t] = "new"
    /\ lock' = t
    /\ pc' = [pc EXCEPT ![t] = "new_locked"]
    /\ UNCHANGED <<instance, created, db, conn, op, arg, exc, sm, ret>>

\* with cls._lock:
NewAcquire(t) ==
    /\ pc[t] = "new"
    /\ lock = NoThread
    /\ lock' = t
    /\ pc' = [pc EXCEPT ![t] = "new_locked"]
    /\ UNCHANGED <<instance, created, db, conn, op, arg, exc, sm, ret>>

\* init_db: "ok", or it raised in sqlite3.connect ("noconn": the instance has
\* neither conn nor cursor) or in CREATE TABLE ("notable": it has both, the
\* table is missing)
InitOutcomes == {"ok", "noconn", "notable"}

\* if cls._instance is None: ... ; return cls._instance  (the with block ends:
\* the lock is released)
NewBody(t) ==
    /\ pc[t] = "new_locked"
    /\ IF instance = "None"
         THEN /\ pc' = [pc EXCEPT ![t] = "new_init"]
              /\ UNCHANGED <<lock, db>>
         ELSE /\ pc' = [pc EXCEPT ![t] = AfterNew(op[t])]
              /\ db' = [db EXCEPT ![t] = created]
              /\ lock' = NoThread
    /\ UNCHANGED <<instance, created, conn, op, arg, exc, sm, ret>>

\* cls._instance = super().__new__(cls); cls._instance.init_db();
\* return cls._instance.  _instance is assigned before init_db runs and stays
\* assigned if init_db raises; the exception leaves the with block and the
\* entry point handles it.
NewInit(t) ==
    /\ pc[t] = "new_init"
    /\ created' = created + 1
    /\ lock' = NoThread
    /\ \E o \in InitOutcomes :
          /\ instance' = o
          /\ IF o = "ok"
               THEN /\ pc' = [pc EXCEPT ![t] = AfterNew(op[t])]
                    /\ db' = [db EXCEPT ![t] = created']
                    /\ UNCHANGED <<exc, ret>>
               ELSE /\ pc' = [pc EXCEPT ![t] = "done"]
                    /\ exc' = [exc EXCEPT ![t] = "InitError"]
                    /\ ret' = [ret EXCEPT ![t] = OnException(op[t])]
                    /\ UNCHANGED db
    /\ UNCHANGED <<conn, op, arg, sm>>

\* the entry point has returned (or raised) to its caller, which takes the
\* outcome; the thread is free for its next call
Return(t) ==
    /\ pc[t] = "done"
    /\ pc' = [pc EXCEPT ![t] = "idle"]
    /\ op' = [op EXCEPT ![t] = "none"]
    /\ arg' = [arg EXCEPT ![t] = <<>>]
    /\ exc' = [exc EXCEPT ![t] = "none"]
    /\ sm' = [sm EXCEPT ![t] = "none"]
    /\ ret' = [ret EXCEPT ![t] = NoRet]
    /\ db' = [db EXCEPT ![t] = 0]
    /\ UNCHANGED <<lock, instance, created, conn>>

(***************************************************************************)
(* save_group_message / DatabaseManager.save_message                       *)
(***************************************************************************)
CallSave(t, md) ==
    /\ pc[t] = "idle"
    /\ pc' = [pc EXCEPT ![t] = "new"]
    /\ op' = [op EXCEPT ![t] = "save_group_message"]
    /\ arg' = [arg EXCEPT ![t] = md]
    /\ exc' = [exc EXCEPT ![t] = "none"]
    /\ sm' = [sm EXCEPT ![t] = "none"]
    /\ ret' = [ret EXCEPT ![t] = NoRet]
    /\ UNCHANGED <<lock, instance, created, db, conn>>

\* with self._lock:
SaveAcquire(t) ==
    /\ pc[t] = "save"
    /\ lock = NoThread
    /\ lock' = t
    /\ pc' = [pc EXCEPT ![t] = "save_locked"]
    /\ UNCHANGED <<instance, created, db, conn, op, arg, exc, sm, ret>>

\* the lock taken with acquire() and released on the normal path only
SaveRaise_KeepsLock(t, e) ==
    /\ lock' = lock
    /\ exc' = [exc EXCEPT ![t] = e]
    /\ IF e = "IntegrityError"
         THEN /\ sm' = [sm EXCEPT ![t] = "return"]
              /\ ret' = [ret EXCEPT ![t] = Returned]
              /\ pc' = [pc EXCEPT ![t] = "done"]
         ELSE /\ pc' = [pc EXCEPT ![t] = "save_except"]
              /\ UNCHANGED <<sm, ret>>

\* an exception leaves the with block: the lock is released and control is at
\* the except clauses
SaveRaise(t, e) ==
    /\ lock' = NoThread
    /\ exc' = [exc EXCEPT ![t] = e]
    /\ IF e = "IntegrityError"
         THEN \* logger.warning; save_message returns, so does its caller
              /\ sm' = [sm EXCEPT ![t] = "return"]
              /\ ret' = [ret EXCEPT ![t] = Returned]
              /\ pc' = [pc EXCEPT ![t] = "done"]
         ELSE /\ pc' = [pc EXCEPT ![t] = "save_except"]
              /\ UNCHANGED <<sm, ret>>

\* self.cursor.execute(INSERT ..., (message_data['msg_id'], ...))
\* In order: the attribute self.cursor, the argument tuple, the statement is
\* prepared, the implicit BEGIN, the INSERT itself.
SaveExecute(t) ==
    /\ pc[t] = "save_locked"
    /\ lock = t
    /\ UNCHANGED <<instance, created, db, committed, op, arg>>
    /\ CASE instance = "noconn" ->
              SaveRaise(t, "AttributeError") /\ UNCHANGED <<pending, inTxn>>
         [] instance # "noconn" /\ ~(Keys \subseteq DOMAIN arg[t]) ->
              SaveRaise(t, "KeyError") /\ UNCHANGED <<pending, inTxn>>
         [] instance = "notable" /\ Keys \subseteq DOMAIN arg[t] ->
              SaveRaise(t, "OperationalError") /\ UNCHANGED <<pending, inTxn>>
         [] instance = "ok" /\ Keys \subseteq DOMAIN arg[t] ->
              \/ \* the engine fails the statement: the implicit transaction
                 \* stays open (database is locked) or the engine has rolled
                 \* it back (disk full, I/O error)
                 /\ SaveRaise(t, "OperationalError")
                 /\ \E open \in BOOLEAN : inTxn' = open
                 /\ UNCHANGED pending
              \/ \* the statement fails on the UNIQUE constraint; the
                 \* transaction begun for it stays open
                 /\ UniqueViolated(View, arg[t].msg_id)
                 /\ SaveRaise(t, "IntegrityError")
                 /\ inTxn' = TRUE
                 /\ UNCHANGED pending
              \/ /\ ~UniqueViolated(View, arg[t].msg_id)
                 /\ inTxn' = TRUE
                 /\ pending' = Append(pending, InsertRow(View, arg[t]))
                 /\ pc' = [pc EXCEPT ![t] = "save_inserted"]
                 /\ UNCHANGED <<lock, exc, sm, ret>>

\* a commit that rewrites the table from the rows of the transaction
SaveCommit_Overwrite(t) ==
    /\ pc[t] = "save_inserted"
    /\ lock = t
    /\ committed' = pending
    /\ pending' = <<>>
    /\ inTxn' = FALSE
    /\ lock' = NoThread
    /\ sm' = [sm EXCEPT ![t] = "return"]
    /\ ret' = [ret EXCEPT ![t] = Returned]
    /\ pc' = [pc EXCEPT ![t] = "done"]
    /\ UNCHANGED <<instance, created, db, op, arg, exc>>

\* self.conn.commit(), end of the with block, return.  The commit makes
\* every row of the open transaction durable; when the engine fails it, the
\* transaction stays open with its rows (database is locked) or the engine
\* has rolled it back (disk full, I/O error).
SaveCommit(t) ==
    /\ pc[t] = "save_inserted"
    /\ lock = t
    /\ \/ /\ committed' = View
          /\ pending' = <<>>
          /\ inTxn' = FALSE
          /\ lock' = NoThread
          /\ sm' = [sm EXCEPT ![t] = "return"]
          /\ ret' = [ret EXCEPT ![t] = Returned]
          /\ pc' = [pc EXCEPT ![t] = "done"]
          /\ UNCHANGED exc
       \/ /\ SaveRaise(t, "OperationalError")
          /\ \/ UNCHANGED <<pending, inTxn>>
             \/ pending' = <<>> /\ inTxn' = FALSE
          /\ UNCHANGED committed
    /\ UNCHANGED <<instance, created, db, op, arg>>

\* except Exception: logger.error; self.conn.rollback(); raise
\* The with block has been left: the lock is not held here.  Without a conn
\* attribute the rollback itself raises; either way save_message raises and
\* save_group_message logs and returns.
SaveRollback(t) ==
    /\ pc[t] = "save_except"
    /\ IF instance = "noconn"
         THEN UNCHANGED <<pending, inTxn>>
         ELSE pending' = <<>> /\ inTxn' = FALSE
    /\ sm' = [sm EXCEPT ![t] = "raise"]
    /\ ret' = [ret EXCEPT ![t] = OnException(op[t])]
    /\ pc' = [pc EXCEPT ![t] = "done"]
    /\ UNCHANGED <<lock, instance, created, db, committed, op, arg, exc>>

(***************************************************************************)
(* Queries.                                                                *)
(***************************************************************************)
\* Python truthiness of an optional argument: `if group_id:`, `if start_time:`
TruthyStr(o) == o # None /\ o[1] # ""
TruthyInt(o) == o # None /\ o[1] # 0

\* position of a column in a row of SELECT *
ColumnIndex(name) ==
    CASE name = "id" -> 0
      [] name = "msg_id" -> 1
      [] name = "group_id" -> 2
      [] name = "group_name" -> 3
      [] name = "sender_id" -> 4
      [] name = "sender_name" -> 5
      [] name = "content" -> 6
      [] name = "msg_type" -> 7
      [] name = "create_time" -> 8
      [] name = "created_at" -> 9

\* conditions / params of get_messages, one <<column, comparison, parameter>>
\* per appended condition
Conditions(req) ==
    (IF TruthyStr(req.group_id)
       THEN << <<"group_id", "=", req.group_id[1]>> >> ELSE <<>>)
    \o (IF TruthyStr(req.sender_id)
       THEN << <<"sender_id", "=", req.sender_id[1]>> >> ELSE <<>>)
    \o (IF TruthyInt(req.start_time)
       THEN << <<"create_time", ">=", req.start_time[1]>> >> ELSE <<>>)
    \o (IF TruthyInt(req.end_time)
       THEN << <<"create_time", "<=", req.end_time[1]>> >> ELSE <<>>)
    \o (IF TruthyStr(req.msg_type)
       THEN << <<"msg_type", "=", req.msg_type[1]>> >> ELSE <<>>)

Holds(row, c) ==
    LET v == Col(row, ColumnIndex(c[1])) IN
    CASE c[2] = "=" -> v = c[3]
      [] c[2] = ">=" -> v >= c[3]
      [] c[2] = "<=" -> v <= c[3]

\* WHERE c1 AND c2 AND ... (no WHERE clause when there is no condition)
Where(row, conds) == \A i \in DOMAIN conds : Holds(row, conds[i])

SelectWhere(rows, conds) ==
    {r \in {rows[i] : i \in DOMAIN rows} : Where(r, conds)}

\* every enumeration of a set of rows: the order SQL leaves unspecified
RECURSIVE Orderings(_)
Orderings(S) ==
    IF S = {} THEN {<<>>}
    ELSE UNION {{<<r>> \o l : l \in Orderings(S \ {r})} : r \in S}

\* ORDER BY <column k> DESC of the rows whose key is at most t: rows with a
\* larger key come first, rows with equal keys in any order
RECURSIVE OrderByDesc(_, _, _)
OrderByDesc(S, k, t) ==
    IF t < 0 \/ S = {} THEN {<<>>}
    ELSE LET tier == {r \in S : Col(r, k) = t} IN
         IF tier = {}
           THEN \* no row has the key t: on to the largest key below it
                LET below == {Col(r, k) : r \in S} \cap (0..(t - 1)) IN
                IF below = {} THEN {<<>>}
                ELSE OrderByDesc(S, k, CHOOSE v \in below :
                                          \A w \in below : w <= v)
           ELSE {a \o b : a \in Orderings(tier),
                          b \in OrderByDesc(S \ tier, k, t - 1)}

Min(a, b) == IF a <= b THEN a ELSE b

\* LIMIT ? OFFSET ?: sqlite reads a negative LIMIT as no limit and a negative
\* OFFSET as 0
LimitOffset(list, limit, offset) ==
    LET off == IF offset < 0 THEN 0 ELSE offset
        last == IF limit < 0 THEN Len(list) ELSE Min(Len(list), off + limit)
    IN SubSeq(list, off + 1, last)

\* the statement without its ORDER BY clause: the matching rows in table order
SelectMessages_TableOrder(rows, req) ==
    { LimitOffset(SelectSeq(rows, LAMBDA r : Where(r, Conditions(req))),
                  req.limit, req.offset) }

\* SELECT * FROM group_messages [WHERE ...] ORDER BY create_time DESC
\* LIMIT ? OFFSET ?, then fetchall(): the possible results
SelectMessages(rows, req) ==
    { LimitOffset(l, req.limit, req.offset) :
        l \in OrderByDesc(SelectWhere(rows, Conditions(req)),
                          ColumnIndex("create_time"), MaxTime) }

\* the dictionary with two of the row indexes exchanged
RowToDict_Swapped(row) ==
    [id |-> Col(row, 0), msg_id |-> Col(row, 1), group_id |-> Col(row, 2),
     group_name |-> Col(row, 5), sender_id |-> Col(row, 4),
     sender_name |-> Col(row, 3), content |-> Col(row, 6),
     msg_type |-> Col(row, 7), create_time |-> Col(row, 8),
     created_at |-> Col(row, 9)]

\* the dictionary built from a row of SELECT *
RowToDict(row) ==
    [id |-> Col(row, 0), msg_id |-> Col(row, 1), group_id |-> Col(row, 2),
     group_name |-> Col(row, 3), sender_id |-> Col(row, 4),
     sender_name |-> Col(row, 5), content |-> Col(row, 6),
     msg_type |-> Col(row, 7), create_time |-> Col(row, 8),
     created_at |-> Col(row, 9)]

Messages(rows) == [i \in DOMAIN rows |-> RowToDict(rows[i])]

\* the parameter declared without le=100
LimitAccepted_Unchecked(limit) == TRUE

\* limit: int = Query(default=50, le=100): the framework answers 422 to a
\* request that fails the validation and does not run the handler
LimitAccepted(limit) == limit <= MaxLimit

(***************************************************************************)
(* get_messages                                                            *)
(***************************************************************************)
Request(g, s, st, et, ty, lim, off) ==
    [group_id |-> g, sender_id |-> s, start_time |-> st, end_time |-> et,
     msg_type |-> ty, limit |-> lim, offset |-> off]

\* requests the handler receives while the ingestion threads run
HandlerRequests ==
    { Request(None, None, None, None, None, DefaultLimit, 0),
      Request(Some("g1"), None, Some(2), None, None, 1, 1),
      Request(None, None, None, None, None, MaxLimit + 1, 0) }

CallGetMessages(t, req) ==
    /\ pc[t] = "idle"
    /\ op' = [op EXCEPT ![t] = "get_messages"]
    /\ arg' = [arg EXCEPT ![t] = req]
    /\ sm' = [sm EXCEPT ![t] = "none"]
    /\ IF LimitAccepted(req.limit)
         THEN /\ pc' = [pc EXCEPT ![t] = "new"]
              /\ exc' = [exc EXCEPT ![t] = "none"]
              /\ ret' = [ret EXCEPT ![t] = NoRet]
         ELSE /\ pc' = [pc EXCEPT ![t] = "done"]
              /\ exc' = [exc EXCEPT ![t] = "RequestValidationError"]
              /\ ret' = [ret EXCEPT ![t] = Response("422", <<>>)]
    /\ UNCHANGED <<lock, instance, created, db, conn>>

\* with db._lock:
GmAcquire(t) ==
    /\ pc[t] = "gm"
    /\ lock = NoThread
    /\ lock' = t
    /\ pc' = [pc EXCEPT ![t] = "gm_locked"]
    /\ UNCHANGED <<instance, created, db, conn, op, arg, exc, sm, ret>>

\* a statement of a handler raised e inside its with block
ReadRaise(t, e) ==
    /\ exc' = [exc EXCEPT ![t] = e]
    /\ ret' = [ret EXCEPT ![t] = OnException(op[t])]

\* how the SELECT of a handler can fail: no cursor attribute, no table, or the
\* engine fails the statement
ReadFailure(t) ==
    \/ instance = "noconn" /\ ReadRaise(t, "AttributeError")
    \/ instance # "noconn" /\ ReadRaise(t, "OperationalError")

\* db.cursor.execute(sql, params); rows = db.cursor.fetchall(); the lock is
\* released; the rows are converted and returned
GmQuery(t) ==
    /\ pc[t] = "gm_locked"
    /\ lock = t
    /\ lock' = NoThread
    /\ pc' = [pc EXCEPT ![t] = "done"]
    /\ \/ ReadFailure(t)
       \/ /\ instance = "ok"
          /\ \E rows \in SelectMessages(View, arg[t]) :
                ret' = [ret EXCEPT ![t] = Response("200", Messages(rows))]
          /\ UNCHANGED exc
    /\ UNCHANGED <<instance, created, db, conn, op, arg, sm>>

(***************************************************************************)
(* get_groups                                                              *)
(***************************************************************************)
\* the statement with GROUP BY group_id alone: group_name is then taken from
\* the row that holds the maximum
GroupBy_IdOnly(rows) ==
    LET all == {rows[i] : i \in DOMAIN rows}
        ids == {Col(r, 2) : r \in all}
        members(g) == {r \in all : Col(r, 2) = g}
        newest(g) == CHOOSE r \in members(g) :
                        \A q \in members(g) :
                           \/ Col(q, 8) < Col(r, 8)
                           \/ Col(q, 8) = Col(r, 8) /\ Col(q, 0) <= Col(r, 0)
    IN { << g, Col(newest(g), 3), Cardinality(members(g)), Col(newest(g), 8) >> :
           g \in ids }

\* SELECT group_id, group_name, COUNT(*), MAX(create_time) ...
\* GROUP BY group_id, group_name
GroupBy(rows) ==
    LET all == {rows[i] : i \in DOMAIN rows}
        pairs == {<<Col(r, 2), Col(r, 3)>> : r \in all}
        members(p) == {r \in all : Col(r, 2) = p[1] /\ Col(r, 3) = p[2]}
        times(p) == {Col(r, 8) : r \in members(p)}
    IN { << p[1], p[2], Cardinality(members(p)),
            CHOOSE m \in times(p) : \A u \in times(p) : u <= m >> : p \in pairs }

\* ... ORDER BY last_active DESC, then fetchall(): the possible results
SelectGroups(rows) == OrderByDesc(GroupBy(rows), 3, MaxTime)

\* datetime.fromtimestamp(n).strftime('%Y-%m-%d %H:%M:%S'): the text of the
\* local time of epoch second n
Strftime(n) == <<"%Y-%m-%d %H:%M:%S", n>>

GroupToDict(row) ==
    [group_id |-> Col(row, 0), group_name |-> Col(row, 1),
     message_count |-> Col(row, 2), last_active |-> Strftime(Col(row, 3))]

Groups(rows) == [i \in DOMAIN rows |-> GroupToDict(rows[i])]

CallGetGroups(t) ==
    /\ pc[t] = "idle"
    /\ pc' = [pc EXCEPT ![t] = "new"]
    /\ op' = [op EXCEPT ![t] = "get_groups"]
    /\ arg' = [arg EXCEPT ![t] = <<>>]
    /\ exc' = [exc EXCEPT ![t] = "none"]
    /\ sm' = [sm EXCEPT ![t] = "none"]
    /\ ret' = [ret EXCEPT ![t] = NoRet]
    /\ UNCHANGED <<lock, instance, created, db, conn>>

GgAcquire(t) ==
    /\ pc[t] = "gg"
    /\ lock = NoThread
    /\ lock' = t
    /\ pc' = [pc EXCEPT ![t] = "gg_locked"]
    /\ UNCHANGED <<instance, created, db, conn, op, arg, exc, sm, ret>>

GgQuery(t) ==
    /\ pc[t] = "gg_locked"
    /\ lock = t
    /\ lock' = NoThread
    /\ pc' = [pc EXCEPT ![t] = "done"]
    /\ \/ ReadFailure(t)
       \/ /\ instance = "ok"
          /\ \E rows \in SelectGroups(View) :
                ret' = [ret EXCEPT ![t] = Response("200", Groups(rows))]
          /\ UNCHANGED exc
    /\ UNCHANGED <<instance, created, db, conn, op, arg, sm>>

(***************************************************************************)
(* get_message_by_id                                                       *)
(***************************************************************************)
\* SELECT * FROM group_messages WHERE msg_id = ?, then fetchone(): the first
\* matching row in table order, or None
FetchOne(rows, m) ==
    LET hits == {i \in DOMAIN rows : Col(rows[i], 1) = m} IN
    IF hits = {} THEN None
    ELSE Some(rows[CHOOSE i \in hits : \A j \in hits : i <= j])

CallGetMessageById(t, m) ==
    /\ pc[t] = "idle"
    /\ pc' = [pc EXCEPT ![t] = "new"]
    /\ op' = [op EXCEPT ![t] = "get_message_by_id"]
    /\ arg' = [arg EXCEPT ![t] = m]
    /\ exc' = [exc EXCEPT ![t] = "none"]
    /\ sm' = [sm EXCEPT ![t] = "none"]
    /\ ret' = [ret EXCEPT ![t] = NoRet]
    /\ UNCHANGED <<lock, instance, created, db, conn>>

GidAcquire(t) ==
    /\ pc[t] = "gid"
    /\ lock = NoThread
    /\ lock' = t
    /\ pc' = [pc EXCEPT ![t] = "gid_locked"]
    /\ UNCHANGED <<instance, created, db, conn, op, arg, exc, sm, ret>>

\* the answer built from the fetched row.  `raise HTTPException(404)` stands
\* inside the try block whose `except Exception` turns every exception,
\* HTTPException included, into HTTPException(500).
LookupResponse(row) ==
    IF row = None THEN Response("500", <<>>)
    ELSE Response("200", <<RowToDict(row[1])>>)

GidQuery(t) ==
    /\ pc[t] = "gid_locked"
    /\ lock = t
    /\ lock' = NoThread
    /\ pc' = [pc EXCEPT ![t] = "done"]
    /\ \/ ReadFailure(t)
       \/ /\ instance = "ok"
          /\ LET row == FetchOne(View, arg[t]) IN
               /\ ret' = [ret EXCEPT ![t] = LookupResponse(row)]
               /\ exc' = [exc EXCEPT ![t] =
                            IF row = None THEN "HTTPException(404)" ELSE "none"]
    /\ UNCHANGED <<instance, created, db, conn, op, arg, sm>>

Next ==
    \/ \E t \in Threads : NewAcquire(t)
    \/ \E t \in Threads : NewBody(t)
    \/ \E t \in Threads : NewInit(t)
    \/ \E t \in Threads : Return(t)
    \/ \E t \in Ingest : \E md \in SaveInputs : CallSave(t, md)
    \/ \E t \in Ingest : SaveAcquire(t)
    \/ \E t \in Ingest : SaveExecute(t)
    \/ \E t \in Ingest : SaveCommit(t)
    \/ \E t \in Ingest : SaveRollback(t)
    \/ \E t \in Http : \E req \in HandlerRequests : CallGetMessages(t, req)
    \/ \E t \in Http : GmAcquire(t)
    \/ \E t \in Http : GmQuery(t)
    \/ \E t \in Http : CallGetGroups(t)
    \/ \E t \in Http : GgAcquire(t)
    \/ \E t \in Http : GgQuery(t)
    \/ \E t \in Http : \E m \in LookupIds : CallGetMessageById(t, m)
    \/ \E t \in Http : GidAcquire(t)
    \/ \E t \in Http : GidQuery(t)

Spec == Init /\ [][Next]_vars

(***************************************************************************)
(* The query specification: the handlers run on a store that earlier saves *)
(* have filled, over every combination of filters, limits and offsets.     *)
(***************************************************************************)
\* the i-th message of a stream of group messages; with ties = 2 two
\* consecutive messages carry the same create_time
StoredRow(i, ties) ==
    InsertRow([j \in 1..(i - 1) |-> <<>>],
              MessageData("m" \o ToString(i),
                          IF i % 2 = 1 THEN "g1" ELSE "g2",
                          IF i % 3 = 0 THEN "Renamed" ELSE "Team",
                          IF i % 3 = 1 THEN "u1" ELSE "u2",
                          IF i % 3 = 1 THEN "Alice" ELSE "Bob",
                          "hi",
                          IF i % 4 < 2 THEN "text" ELSE "image",
                          (i + ties - 1) \div ties))

StoreSizes == (0..SmallRows) \cup (MaxLimit..BigRows)

Stores ==
    {[i \in 1..n |-> StoredRow(i, 1)] : n \in StoreSizes}
    \cup {[i \in 1..n |-> StoredRow(i, 2)] : n \in 0..SmallRows}

QueryRequests ==
    { Request(g, s, st, et, ty, lim, off) :
        g \in {None, Some(""), Some("g1")},
        s \in {None, Some("u1")},
        st \in {None, Some(0), Some(2)},
        et \in {None, Some(0), Some(2)},
        ty \in {None, Some("text")},
        lim \in {-1, 0, 1, MaxLimit, MaxLimit + 1},
        off \in {-1, 0, 1} }

\* a process starting on a database file that earlier runs have filled
InitQuery ==
    /\ lock = NoThread
    /\ instance = "None"
    /\ created = 0
    /\ db = [t \in Threads |-> 0]
    /\ committed \in Stores
    /\ pending = <<>>
    /\ inTxn = FALSE
    /\ pc = [t \in Threads |-> "idle"]
    /\ op = [t \in Threads |-> "none"]
    /\ arg = [t \in Threads |-> <<>>]
    /\ exc = [t \in Threads |-> "none"]
    /\ sm = [t \in Threads |-> "none"]
    /\ ret = [t \in Threads |-> NoRet]

NextQuery ==
    \/ \E t \in Http : NewAcquire(t)
    \/ \E t \in Http : NewBody(t)
    \/ \E t \in Http : NewInit(t)
    \/ \E t \in Http : Return(t)
    \/ \E t \in Http : \E req \in QueryRequests : CallGetMessages(t, req)
    \/ \E t \in Http : GmAcquire(t)
    \/ \E t \in Http : GmQuery(t)
    \/ \E t \in Http : CallGetGroups(t)
    \/ \E t \in Http : GgAcquire(t)
    \/ \E t \in Http : GgQuery(t)
    \/ \E t \in Http : \E m \in LookupIds : CallGetMessageById(t, m)
    \/ \E t \in Http : GidAcquire(t)
    \/ \E t \in Http : GidQuery(t)

QuerySpec == InitQuery /\ [][NextQuery]_vars

(***************************************************************************)
(* Claims.                                                                 *)
(***************************************************************************)
Stored(m) == \E i \in DOMAIN committed : committed[i][2] = m

WellFormed(md) == Keys \subseteq DOMAIN md

\* thread t is about to execute the INSERT of a fully populated record whose
\* msg_id is already stored
DuplicateSave(t) ==
    /\ pc[t] = "save_locked"
    /\ instance = "ok"
    /\ WellFormed(arg[t])
    /\ Stored(arg[t].msg_id)

C1_OnePerMsgId ==
    \A i, j \in DOMAIN View : View[i][2] = View[j][2] => i = j

\* C1: the store never holds two records with the same msg_id, and a
\* save_message of a record whose msg_id is already stored, once the engine
\* has run its INSERT, changes no row, adds none, and returns normally.
C1_UniqueMsgId ==
    /\ []C1_OnePerMsgId
    /\ [][\A t \in Ingest :
            (DuplicateSave(t) /\ pc'[t] # pc[t] /\ exc'[t] # "OperationalError")
            => /\ committed' = committed
               /\ pending' = pending
               /\ exc'[t] = "IntegrityError"
               /\ sm'[t] = "return"
               /\ ret'[t] = Returned
               /\ pc'[t] = "done"]_vars

\* a second save of "m1" has returned; the store holds the one row of the
\* first, whose content differs from the second's
C1_Witness ==
    \E t \in Ingest :
        /\ pc[t] = "done"
        /\ exc[t] = "IntegrityError"
        /\ sm[t] = "return"
        /\ \E i \in DOMAIN committed :
              /\ committed[i][2] = arg[t].msg_id
              /\ committed[i][7] # arg[t].content
              /\ \A j \in DOMAIN committed :
                    committed[j][2] = arg[t].msg_id => j = i

\* thread t takes a step that executes, fetches, commits or rolls back on
\* the shared connection (an instance without conn has no connection to touch)
TouchesConnection(t) ==
    /\ pc[t] \in {"save_locked", "save_inserted", "save_except",
                  "gm_locked", "gg_locked", "gid_locked"}
    /\ pc'[t] # pc[t]
    /\ instance # "noconn"

\* thread t commits (leaving save_inserted) or rolls back (leaving save_except)
CommitsOrRollsBack(t) ==
    /\ pc[t] \in {"save_inserted", "save_except"}
    /\ pc'[t] # pc[t]
    /\ instance # "noconn"

\* C2: every execute, fetch, commit and rollback on the shared connection is
\* made by a thread that holds the store lock, and no thread commits or rolls
\* back while another thread holds the lock.
C2_AccessUnderLock ==
    [][\A t \in Threads :
         /\ TouchesConnection(t) => lock = t
         /\ CommitsOrRollsBack(t) => lock \in {t, NoThread}]_vars

\* thread t leaves the with block of save_message
SaveReleases(t) ==
    /\ pc[t] \in {"save_locked", "save_inserted"}
    /\ lock = t
    /\ lock' # t

\* C3: when save_message releases the store lock no transaction is open, and
\* the call neither commits nor rolls back after the release.
C3_SettledBeforeRelease ==
    [][\A t \in Ingest :
         /\ SaveReleases(t) => ~inTxn'
         /\ CommitsOrRollsBack(t) => lock = t]_vars

Supplied(o) == o # None

Max(a, b) == IF a >= b THEN a ELSE b

\* the stored row satisfies every filter the request supplies
SatisfiesSupplied(row, req) ==
    /\ Supplied(req.group_id) => row[3] = req.group_id[1]
    /\ Supplied(req.sender_id) => row[5] = req.sender_id[1]
    /\ Supplied(req.msg_type) => row[8] = req.msg_type[1]
    /\ Supplied(req.start_time) => row[9] >= req.start_time[1]
    /\ Supplied(req.end_time) => row[9] <= req.end_time[1]

\* thread t has answered a get_messages request with a page
PageReturned(t) ==
    /\ pc[t] = "done"
    /\ op[t] = "get_messages"
    /\ ret[t].status = "200"

\* ... a request with a limit and an offset that are not negative
PlainPageReturned(t) ==
    /\ PageReturned(t)
    /\ arg[t].limit >= 0
    /\ arg[t].offset >= 0

\* C4: every record of a returned page satisfies all the supplied filters,
\* and the page is cut by limit and offset alone from the records that
\* satisfy them: a filter that is not supplied excludes nothing.
C4_SuppliedFilters ==
    \A t \in Http : PlainPageReturned(t) =>
        LET req == arg[t]
            body == ret[t].body
            match == {i \in DOMAIN committed : SatisfiesSupplied(committed[i], req)}
            avail == Max(0, Cardinality(match) - req.offset)
        IN /\ \A k \in DOMAIN body :
                \E i \in match : committed[i][2] = body[k].msg_id
           /\ Len(body) = Min(req.limit, avail)

\* C5: a returned page never holds more than 100 records, whatever the limit.
C5_AtMostCap ==
    \A t \in Http : PageReturned(t) => Len(ret[t].body) <= MaxLimit

\* C6 as stated: a request whose limit exceeds the cap is served, as if the
\* limit were the cap, with a normal page.
C6_Clamped ==
    \A t \in Http :
        (pc[t] = "done" /\ op[t] = "get_messages" /\ arg[t].limit > MaxLimit
           /\ exc[t] \notin {"InitError", "AttributeError", "OperationalError"})
        => /\ ret[t].status = "200"
           /\ Len(ret[t].body) <= MaxLimit

\* C6 amended: a get_messages request whose limit exceeds the cap is rejected
\* by the validation of the parameter: it is answered 422 with no page, and
\* the handler body never runs (the store is not opened, the lock not taken).
C6_Rejected ==
    \A t \in Http :
        (op[t] = "get_messages" /\ arg[t].limit > MaxLimit)
        => /\ pc[t] = "done"
           /\ ret[t] = Response("422", <<>>)
           /\ lock # t

C6_Witness ==
    \E t \in Http :
        /\ op[t] = "get_messages"
        /\ arg[t].limit = MaxLimit + 1
        /\ pc[t] = "done"
        /\ ret[t].status = "422"

StoreFailures == {"InitError", "AttributeError", "OperationalError"}

\* C7: a lookup of an identifier that is not stored ends 404, and 500 is the
\* answer only when the store operation failed.
C7_NotFound ==
    \A t \in Http :
        (pc[t] = "done" /\ op[t] = "get_message_by_id")
        => /\ (exc[t] \notin StoreFailures /\ ~Stored(arg[t]))
                => ret[t].status = "404"
           /\ ret[t].status = "500" => exc[t] \in StoreFailures

\* what get_message_by_id answers for the identifier of r on the rows given:
\* one record, with the eight fields of r
RoundTrip(rows, r) ==
    LET resp == LookupResponse(FetchOne(rows, r.msg_id)) IN
    /\ Cardinality({i \in DOMAIN rows : rows[i][2] = r.msg_id}) = 1
    /\ resp.status = "200"
    /\ Len(resp.body) = 1
    /\ \A k \in Keys : resp.body[1][k] = r[k]

\* C8: once save_message has committed the row of r, the lookup of r.msg_id
\* on the store answers r's fields; whatever is done next, it keeps answering
\* so; and a lookup that the store does not fail returns that answer.
C8_RoundTrip ==
    /\ [][\A t \in Ingest :
            (pc[t] = "save_inserted" /\ pc'[t] = "done" /\ pending # <<>>)
            => RoundTrip(committed', arg[t])]_vars
    /\ [][\A r \in {x \in SaveInputs : WellFormed(x)} :
            RoundTrip(committed, r) => RoundTrip(committed', r)]_vars
    /\ [][\A h \in Http :
            (pc[h] = "gid_locked" /\ pc'[h] = "done" /\ Stored(arg[h])
               /\ exc'[h] \notin StoreFailures)
            => ret'[h] = LookupResponse(FetchOne(committed, arg[h]))]_vars

\* a save of r has returned and a later lookup of its msg_id has answered
\* r's fields, after another record has been stored as well
C8_Witness ==
    \E t \in Ingest, h \in Http :
        /\ pc[t] = "done" /\ sm[t] = "return" /\ exc[t] = "none"
        /\ pc[h] = "done" /\ op[h] = "get_message_by_id"
        /\ arg[h] = arg[t].msg_id
        /\ ret[h].status = "200"
        /\ \A k \in Keys : ret[h].body[1][k] = arg[t][k]
        /\ Len(committed) = 2

\* C9: a returned page is ordered by create_time descending.
C9_Descending ==
    \A t \in Http : PageReturned(t) =>
        \A i \in 1..(Len(ret[t].body) - 1) :
            ret[t].body[i].create_time >= ret[t].body[i + 1].create_time

\* a page of three records: two with the same create_time after a newer one
C9_Witness ==
    \E t \in Http :
        /\ PageReturned(t)
        /\ Len(ret[t].body) = 3
        /\ ret[t].body[1].create_time > ret[t].body[2].create_time
        /\ ret[t].body[2].create_time = ret[t].body[3].create_time

\* thread t has answered get_groups with a listing
GroupsReturned(t) ==
    /\ pc[t] = "done"
    /\ op[t] = "get_groups"
    /\ ret[t].status = "200"

StoredPairs == {<<committed[i][3], committed[i][4]>> : i \in DOMAIN committed}

WithPair(p) == {i \in DOMAIN committed :
                    committed[i][3] = p[1] /\ committed[i][4] = p[2]}

\* C10: get_groups returns one row per (group_id, group_name) pair of the
\* store, with the number of records of that pair and, as last_active, the
\* (formatted) largest create_time among them, newest last_active first.
C10_Groups ==
    \A t \in Http : GroupsReturned(t) =>
        LET body == ret[t].body IN
        /\ Len(body) = Cardinality(StoredPairs)
        /\ \A p \in StoredPairs :
              \E k \in DOMAIN body :
                 /\ body[k].group_id = p[1]
                 /\ body[k].group_name = p[2]
                 /\ body[k].message_count = Cardinality(WithPair(p))
                 /\ \E i \in WithPair(p) :
                       /\ body[k].last_active = Strftime(committed[i][9])
                       /\ \A j \in WithPair(p) :
                             committed[j][9] <= committed[i][9]
        /\ \A k \in 1..(Len(body) - 1) :
              body[k].last_active[2] >= body[k + 1].last_active[2]

\* a listing in which one group_id appears under two names, one of the rows
\* counting several records
C10_Witness ==
    \E t \in Http :
        /\ GroupsReturned(t)
        /\ \E a, b \in DOMAIN ret[t].body :
              /\ ret[t].body[a].group_id = ret[t].body[b].group_id
              /\ ret[t].body[a].group_name # ret[t].body[b].group_name
              /\ ret[t].body[a].message_count > 1
              /\ ret[t].body[a].last_active[2] > ret[t].body[b].last_active[2]

(***************************************************************************)
(* The fair specification: the same operations under a scheduler that lets *)
(* every thread run and hands the lock to every thread that keeps asking   *)
(* for it.  Calls arrive whenever the callers choose: no fairness on them. *)
(***************************************************************************)
LiveInputs ==
    { MessageData("m1", "g1", "Team", "u1", "Alice", "hi", "text", 1),
      [msg_id |-> "m2", group_id |-> "g1", group_name |-> "Team",
       sender_id |-> "u1", sender_name |-> "Alice", msg_type |-> "text",
       create_time |-> 1] }

LiveRequests == { Request(None, None, None, None, None, DefaultLimit, 0) }

LiveLookups == {"m1"}

\* with self._lock / with cls._lock / with db._lock: the thread waits for
\* the lock
Acquire(t) ==
    \/ NewAcquire(t)
    \/ SaveAcquire(t)
    \/ GmAcquire(t)
    \/ GgAcquire(t)
    \/ GidAcquire(t)

\* every other step of a started operation
Run(t) ==
    \/ NewBody(t)
    \/ NewInit(t)
    \/ SaveExecute(t)
    \/ SaveCommit(t)
    \/ SaveRollback(t)
    \/ GmQuery(t)
    \/ GgQuery(t)
    \/ GidQuery(t)

LiveNext ==
    \/ \E t \in Threads : NewAcquire(t)
    \/ \E t \in Threads : NewBody(t)
    \/ \E t \in Threads : NewInit(t)
    \/ \E t \in Threads : Return(t)
    \/ \E t \in Ingest : \E md \in LiveInputs : CallSave(t, md)
    \/ \E t \in Ingest : SaveAcquire(t)
    \/ \E t \in Ingest : SaveExecute(t)
    \/ \E t \in Ingest : SaveCommit(t)
    \/ \E t \in Ingest : SaveRollback(t)
    \/ \E t \in Http : \E req \in LiveRequests : CallGetMessages(t, req)
    \/ \E t \in Http : GmAcquire(t)
    \/ \E t \in Http : GmQuery(t)
    \/ \E t \in Http : CallGetGroups(t)
    \/ \E t \in Http : GgAcquire(t)
    \/ \E t \in Http : GgQuery(t)
    \/ \E t \in Http : \E m \in LiveLookups : CallGetMessageById(t, m)
    \/ \E t \in Http : GidAcquire(t)
    \/ \E t \in Http : GidQuery(t)

Fairness ==
    \A t \in Threads : SF_vars(Acquire(t)) /\ WF_vars(Run(t))

LiveSpec == Init /\ [][LiveNext]_vars /\ Fairness

\* C11: under any interleaving of DatabaseManager() calls at most one object
\* is ever created (so init_db, called once per object, runs at most once),
\* _instance is set exactly when one has been, and every call that returns
\* yields that one object.
C11_Singleton ==
    /\ created <= 1
    /\ (instance = "None") <=> (created = 0)
    /\ \A t \in Threads : db[t] \in {0, 1}
    /\ \A t \in Threads : db[t] # 0 => created = 1

\* two ingestion threads and the handler hold the instance at the same time
C11_Witness ==
    /\ created = 1
    /\ \A t \in Threads : db[t] = 1

\* call a has failed, has not rolled back yet, and the row it inserted is
\* still in the open transaction
FailedRowPending(a) ==
    /\ pc[a] = "save_except"
    /\ WellFormed(arg[a])
    /\ \E i \in DOMAIN pending : pending[i][2] = arg[a].msg_id
    /\ \A b \in Ingest \ {a} :
          ~(pc[b] = "save_inserted" /\ arg[b].msg_id = arg[a].msg_id)

\* C12: a save_message that fails for another reason than a duplicate raises
\* to its caller, its rollback leaves no transaction open, and the call adds
\* nothing to the committed store: none of its steps changes the committed
\* rows and the row it inserted never becomes committed.
C12_FailureRollsBack ==
    /\ [][\A a \in Ingest :
            FailedRowPending(a) =>
              ~(\E i \in DOMAIN committed' : committed'[i][2] = arg[a].msg_id)]_vars
    /\ [][\A a \in Ingest :
            (pc[a] = "save_except" /\ pc'[a] # pc[a])
            => /\ sm'[a] = "raise"
               /\ committed' = committed
               /\ instance # "noconn" => (~inTxn' /\ pending' = <<>>)]_vars
    /\ [][\A a \in Ingest :
            (pc[a] \in {"save_locked", "save_inserted"} /\ pc'[a] = "save_except")
            => committed' = committed]_vars

\* C13: a committed record stays in the store with the same fields in every
\* later state, and the steps of the read handlers change neither the
\* committed rows nor the open transaction.
C13_AppendOnly ==
    [][/\ \A i \in DOMAIN committed :
             i \in DOMAIN committed' /\ committed'[i] = committed[i]
       /\ \A h \in Http : pc'[h] # pc[h] => conn' = conn]_vars

\* two records are stored and a page with both has been read
C13_Witness ==
    /\ Len(committed) = 2
    /\ \E h \in Http : PageReturned(h) /\ Len(ret[h].body) = 2

\* C14: whatever the input and whatever the store does, save_group_message
\* returns normally.
C14_ReturnsNormally ==
    \A t \in Ingest :
        /\ pc[t] = "done" => ret[t] = Returned
        /\ ret[t] \in {NoRet, Returned}

\* save_group_message has returned although DatabaseManager() raised in one
\* thread and save_message raised in the other
C14_Witness ==
    \E t, u \in Ingest :
        /\ pc[t] = "done" /\ exc[t] = "InitError" /\ ret[t] = Returned
        /\ pc[u] = "done" /\ sm[u] = "raise" /\ ret[u] = Returned

\* the committed store holds a row with the eight fields of md
Committed(md) ==
    \E i \in DOMAIN committed :
        /\ committed[i][2] = md.msg_id /\ committed[i][3] = md.group_id
        /\ committed[i][4] = md.group_name /\ committed[i][5] = md.sender_id
        /\ committed[i][6] = md.sender_name /\ committed[i][7] = md.content
        /\ committed[i][8] = md.msg_type /\ committed[i][9] = md.create_time

\* C15: a save_message whose INSERT ran without error and which returned
\* normally, not through the duplicate path, has its record in the committed
\* store.
C15_NoLostWrite ==
    \A t \in Ingest :
        (pc[t] = "done" /\ sm[t] = "return" /\ exc[t] = "none")
        => Committed(arg[t])

\* C16: every handle DatabaseManager() returns is that of an instance whose
\* init_db completed.
C16_Initialised ==
    \A t \in Threads : db[t] # 0 => instance = "ok"

\* an operation of thread t has started and has not completed
InProgress(t) == pc[t] \notin {"idle", "done"}

\* the positions at which a thread is inside a with-lock block
LockedPcs == {"new_locked", "new_init", "save_locked", "save_inserted",
              "gm_locked", "gg_locked", "gid_locked"}

NewerMatches(match, i) ==
    Cardinality({j \in match : committed[j][9] > committed[i][9]})

\* C18: when the records that satisfy the supplied filters have pairwise
\* distinct create_time, a request with limit l in 0..100 and offset o >= 0
\* is answered normally with the records at positions o .. o+l-1 of their
\* listing by create_time descending; an empty page is a normal answer.
C18_Pagination ==
    \A t \in Http :
        LET req == arg[t]
            body == ret[t].body
            match == {i \in DOMAIN committed : SatisfiesSupplied(committed[i], req)}
        IN (/\ pc[t] = "done"
            /\ op[t] = "get_messages"
            /\ exc[t] \notin StoreFailures
            /\ req.limit \in 0..MaxLimit
            /\ req.offset >= 0
            /\ \A i, j \in match : committed[i][9] = committed[j][9] => i = j)
           => /\ ret[t].status = "200"
              /\ Len(body) = Min(req.limit, Max(0, Cardinality(match) - req.offset))
              /\ \A k \in DOMAIN body :
                    \E i \in match :
                       /\ body[k].msg_id = committed[i][2]
                       /\ NewerMatches(match, i) = req.offset + k - 1

====
